---- MODULE Spec2Model ----
(***************************************************************************)
(* The request execution pipeline of client-rust: the PlanBuilder state    *)
(* machine (src/src/request/plan_builder.rs) and the execution of the      *)
(* plans it emits (src/src/request/plan.rs).                               *)
(*                                                                         *)
(* A plan is a stack of stages; it is modelled as a sequence of stage      *)
(* records, the leaf Dispatch first and the outermost stage last.          *)
(* execute() is modelled as a call stack of frames, one frame per stage    *)
(* that is currently executing; an action is the code a stage runs from    *)
(* one suspension point (.await) to the next.                              *)
(***************************************************************************)
EXTENDS Integers, Sequences, FiniteSets, TLC

\* ------------------------------------------------------------------ bounds
MaxAttempts == 2   \* largest max_attempts of a backoff schedule
MaxShards == 2     \* most items one shard stream yields
MaxOps == 3        \* builder operations applied after PlanBuilder::new
MaxRuns == 2       \* execute() calls made on one plan

VARIABLES
    builder,     \* the PlanBuilder value the caller holds
    plan,        \* the plan returned by PlanBuilder::plan
    status,      \* "idle", "running", "done": the caller's execute() call
    stack,       \* frames of the stages that are executing, outermost first
    ret,         \* the Result the last finished stage returned
    runs,        \* number of execute() calls made on the plan
    dispatched,  \* per shard: dispatch invocations in this execute()
    finished,    \* the frame of the outermost stage when it returned
    calls,       \* counters: shards() calls of this execute(); items the
                 \* latest shard stream yielded; delays and sleeps of the
                 \* latest RetryRegion::execute; invalidate_region calls
                 \* made on the PdClient by the stages of the plan
    hist         \* history of this execute(): what every response so
                 \* far was like, what every shard stream so far was like,
                 \* and the items of the latest stream that failed

vars ==
    <<builder, plan, status, stack, ret, finished, runs, dispatched, calls,
      hist>>
bvars == <<builder, plan>>
xvars == <<status, stack, ret, finished, runs, dispatched, calls, hist>>

\* ----------------------------------------------------------------- Backoff
\* Backoff::no_backoff(): the trivial schedule
no_backoff ==
    [kind |-> "None", current_attempts |-> 0, max_attempts |-> 0]

\* Backoff::no_jitter_backoff(_, _, max_attempts)
no_jitter_backoff(max_attempts) ==
    [kind |-> "NoJitter", current_attempts |-> 0,
     max_attempts |-> max_attempts]

Backoffs == {no_backoff} \cup {no_jitter_backoff(n) : n \in 0..MaxAttempts}

is_none(b) == b.kind = "None"

\* Backoff::next_delay_duration(&mut self): Some(delay) and one attempt
\* consumed, or None on exhaustion
next_delay_duration(b) ==
    IF b.kind = "None" \/ b.current_attempts >= b.max_attempts
    THEN [some |-> FALSE, backoff |-> b]
    ELSE [some |-> TRUE,
          backoff |-> [b EXCEPT !.current_attempts = @ + 1]]

\* the number of delays a schedule yields before it is exhausted
Budget(b) == IF b.kind = "None" THEN 0 ELSE b.max_attempts

\* the delays all the retry stages of the stack p can draw together
RECURSIVE Budgets(_)
Budgets(p) ==
    IF p = <<>> THEN 0
    ELSE Budget(p[Len(p)].backoff) + Budgets(SubSeq(p, 1, Len(p) - 1))

\* ------------------------------------------------------------------ values
NoErr == [kind |-> "none", shard |-> 0]
Error(kind, shard) == [kind |-> kind, shard |-> shard]

NoVal ==
    [tag |-> "none", shard |-> 0, err |-> FALSE, region_error |-> FALSE,
     locks |-> {}, items |-> <<>>]

\* a response of the store serving shard s
Response(s, err, region_error, locks) ==
    [tag |-> "resp", shard |-> s, err |-> err,
     region_error |-> region_error, locks |-> locks, items |-> <<>>]

\* Vec<Result<T>> / Vec<T>
Vec(items) == [NoVal EXCEPT !.tag = "vec", !.items = items]

Ok(v) == [ok |-> TRUE, v |-> v, e |-> NoErr]
Err(e) == [ok |-> FALSE, v |-> NoVal, e |-> e]
NoRet == [ok |-> FALSE, v |-> NoVal, e |-> NoErr]

LockSets == {{}, {1}}

Responses(s) ==
    {Response(s, e, r, l) : e \in BOOLEAN, r \in BOOLEAN, l \in LockSets}

Min(S) == CHOOSE x \in S : \A y \in S : x <= y

\* HasError::error on a response
error(v) ==
    IF v.tag = "resp" /\ v.err THEN Err(Error("KeyError", v.shard))
    ELSE NoRet

\* HasRegionError::region_error: on a response its own region error, on a
\* Vec<Result<T>> the region error of the first Ok element that has one
region_error(v) ==
    IF v.tag = "resp"
    THEN IF v.region_error THEN Err(Error("RegionError", v.shard))
         ELSE NoRet
    ELSE LET hit == {i \in DOMAIN v.items :
                        /\ v.items[i].ok
                        /\ v.items[i].v.tag = "resp"
                        /\ v.items[i].v.region_error}
         IN IF hit = {} THEN NoRet
            ELSE Err(Error("RegionError", v.items[Min(hit)].v.shard))

\* HasLocks::take_locks(&mut self): the locks, and the value without them
take_locks(v) ==
    IF v.tag = "resp"
    THEN [locks |-> v.locks, value |-> [v EXCEPT !.locks = {}]]
    ELSE [locks |-> {}, value |-> v]

\* ------------------------------------------------------------------ stages
Stage(kind, backoff, m, kv) ==
    [kind |-> kind, backoff |-> backoff, merge |-> m, kv_client |-> kv]

Dispatch(kv) == Stage("Dispatch", no_backoff, "", kv)
MultiRegion == Stage("MultiRegion", no_backoff, "", FALSE)
ResolveLock(b) == Stage("ResolveLock", b, "", FALSE)
RetryRegion(b) == Stage("RetryRegion", b, "", FALSE)
MergeResponse(m) == Stage("MergeResponse", no_backoff, m, FALSE)
ProcessResponse == Stage("ProcessResponse", no_backoff, "", FALSE)
HeartbeatPlan == Stage("HeartbeatPlan", no_backoff, "", FALSE)

Kinds(p) == {p[i].kind : i \in DOMAIN p}

\* Merge strategies: CollectError, Collect, and a caller's own strategy
\* whose Out is again a response type (Merge::Out is only bound by Send)
Merges == {"CollectError", "Collect", "UserMerge"}

MergeOut(m) ==
    CASE m = "CollectError" -> "VecResponse"
      [] m = "Collect" -> "Collected"
      [] OTHER -> "Response"

\* Plan::Result of a stack
RECURSIVE ResultType(_)
ResultType(p) ==
    LET top == p[Len(p)]
        inner == SubSeq(p, 1, Len(p) - 1)
    IN CASE top.kind = "Dispatch" -> "Response"
         [] top.kind = "MultiRegion" -> "VecResult"
         [] top.kind = "MergeResponse" -> MergeOut(top.merge)
         [] top.kind = "ProcessResponse" -> "Processed"
         [] OTHER -> ResultType(inner)

\* trait bounds on result types
HasLocks(t) == t = "Response"
HasError(t) == t \in {"Response", "VecResult"}

\* ----------------------------------------------------------------- builder
\* the request handed to PlanBuilder::new: which traits its type implements
Requests ==
    [single_key : BOOLEAN, shardable : BOOLEAN, process : BOOLEAN]

NoBuilder ==
    [st |-> "none", plan |-> <<>>, phase |-> "NoTarget",
     req |-> [single_key |-> FALSE, shardable |-> FALSE, process |-> FALSE],
     ops |-> <<>>]

Process(b) == ResultType(b.plan) = "Response" /\ b.req.process

\* P: Shardable: Dispatch<Req: Shardable> and ResolveLock over it
Shardable(b) ==
    /\ b.req.shardable
    /\ Kinds(b.plan) \subseteq {"Dispatch", "ResolveLock"}

\* PlanBuilder::new
PlanBuilder_new(req) ==
    [st |-> "live", plan |-> <<Dispatch(FALSE)>>, phase |-> "NoTarget",
     req |-> req, ops |-> <<>>]

\* a builder operation consumes self and returns a builder around the
\* wrapped plan; ops records the operations applied so far
Wrap(b, stage, op) ==
    [b EXCEPT !.plan = Append(@, stage), !.ops = Append(@, op)]

resolve_lock(b, backoff) == Wrap(b, ResolveLock(backoff), "resolve_lock")
retry_region(b, backoff) == Wrap(b, RetryRegion(backoff), "retry_region")
merge(b, m) == Wrap(b, MergeResponse(m), "merge")
post_process(b) == Wrap(b, ProcessResponse, "post_process")
heart_beat(b) == Wrap(b, HeartbeatPlan, "heart_beat")

multi_region(b) ==
    [Wrap(b, MultiRegion, "multi_region") EXCEPT !.phase = "Targetted"]

\* a set_single_region_store without plan.kv_client = Some(store.client)
set_single_region_store_NoClient(b, op) ==
    [b EXCEPT !.phase = "Targetted", !.ops = Append(@, op)]

\* set_single_region_store, reached from single_region (op) and
\* single_region_with_store (op): the Ok(builder) it returns
set_single_region_store(b, op) ==
    [b EXCEPT !.plan = <<Dispatch(TRUE)>>, !.phase = "Targetted",
              !.ops = Append(@, op)]

\* the Err a targeting operation returns: the builder is consumed
BuilderFailed(b) == [b EXCEPT !.st = "failed"]

TargetOps == {"multi_region", "single_region", "single_region_with_store"}

\* the targeting operations a builder has gone through
Targetings(b) == SelectSeq(b.ops, LAMBDA o : o \in TargetOps)

\* the impl blocks and where clauses that make an operation callable
Can_resolve_lock(b) == HasLocks(ResultType(b.plan))
Can_retry_region(b) == HasError(ResultType(b.plan))
Can_merge(b) == ResultType(b.plan) = "VecResult"
Can_post_process(b) == Process(b)
Can_heart_beat(b) == HasError(ResultType(b.plan))
Can_multi_region(b) ==
    b.phase = "NoTarget" /\ Shardable(b) /\ HasError(ResultType(b.plan))
Can_single_region(b) ==
    b.phase = "NoTarget" /\ Kinds(b.plan) = {"Dispatch"} /\ b.req.single_key
Can_single_region_with_store(b) ==
    b.phase = "NoTarget" /\ Kinds(b.plan) = {"Dispatch"}
\* a plan() in the impl block of every phase
Can_plan_AnyPhase(b) == TRUE

\* impl PlanBuilder<PdC, P, Targetted> { fn plan }
Can_plan(b) == b.phase = "Targetted"

\* --------------------------------------------------------- builder actions
Live == builder.st = "live" /\ Len(builder.ops) < MaxOps

New ==
    /\ builder.st = "none"
    /\ \E req \in Requests : builder' = PlanBuilder_new(req)
    /\ UNCHANGED <<plan, xvars>>

Call_resolve_lock ==
    /\ Live /\ Can_resolve_lock(builder)
    /\ \E b \in Backoffs : builder' = resolve_lock(builder, b)
    /\ UNCHANGED <<plan, xvars>>

Call_retry_region ==
    /\ Live /\ Can_retry_region(builder)
    /\ \E b \in Backoffs : builder' = retry_region(builder, b)
    /\ UNCHANGED <<plan, xvars>>

Call_merge ==
    /\ Live /\ Can_merge(builder)
    /\ \E m \in Merges : builder' = merge(builder, m)
    /\ UNCHANGED <<plan, xvars>>

Call_post_process ==
    /\ Live /\ Can_post_process(builder)
    /\ builder' = post_process(builder)
    /\ UNCHANGED <<plan, xvars>>

Call_heart_beat ==
    /\ Live /\ Can_heart_beat(builder)
    /\ builder' = heart_beat(builder)
    /\ UNCHANGED <<plan, xvars>>

Call_multi_region ==
    /\ Live /\ Can_multi_region(builder)
    /\ builder' = multi_region(builder)
    /\ UNCHANGED <<plan, xvars>>

\* store_for_key(key).await? then set_single_region_store(..)
Call_single_region ==
    /\ Live /\ Can_single_region(builder)
    /\ \E found \in BOOLEAN, context \in BOOLEAN :
          builder' = IF found /\ context
                     THEN set_single_region_store(builder, "single_region")
                     ELSE BuilderFailed(builder)
    /\ UNCHANGED <<plan, xvars>>

Call_single_region_with_store ==
    /\ Live /\ Can_single_region_with_store(builder)
    /\ \E context \in BOOLEAN :
          builder' =
             IF context
             THEN set_single_region_store(builder, "single_region_with_store")
             ELSE BuilderFailed(builder)
    /\ UNCHANGED <<plan, xvars>>

\* PlanBuilder::plan(self) -> P
Call_plan ==
    /\ builder.st = "live" /\ Can_plan(builder)
    /\ plan' = builder.plan
    /\ builder' = [builder EXCEPT !.st = "planned"]
    /\ UNCHANGED xvars

BuilderNext ==
    \/ New
    \/ Call_resolve_lock
    \/ Call_retry_region
    \/ Call_merge
    \/ Call_post_process
    \/ Call_heart_beat
    \/ Call_multi_region
    \/ Call_single_region
    \/ Call_single_region_with_store
    \/ Call_plan

\* --------------------------------------------------------------- execution
Shards == 0..MaxShards   \* 0: the store of a single-region plan

NoCalls ==
    [shards |-> 0, items |-> 0, regionDelays |-> 0, regionSleeps |-> 0,
     invalidations |-> 0]

NoHist ==
    [allRegionErr |-> TRUE, allLocked |-> TRUE, onlyS2 |-> TRUE,
     noEmptyRun |-> TRUE, fullStreams |-> TRUE, failed |-> {}]

\* the frame of one execute(): the stage (its level in the plan), where it
\* is, its locals (the cloned backoff, the outcomes collected, the shard
\* applied to the clone) and what this ResolveLock::execute has done so far
NewFrame(level) ==
    [level |-> level, pc |-> "start", backoff |-> no_backoff, acc |-> <<>>,
     shard |-> 0, resolverCalls |-> 0, resolverTrue |-> 0,
     resolverFalse |-> 0, lockDelays |-> 0, lockSleeps |-> 0]

Top == stack[Len(stack)]
TopStage == plan[Top.level]

Running(kind, pcs) ==
    /\ status = "running"
    /\ stack # <<>>
    /\ TopStage.kind = kind
    /\ Top.pc \in pcs

\* the running stage goes on with frame f
Stay(f) ==
    /\ stack' = [stack EXCEPT ![Len(stack)] = f]
    /\ UNCHANGED <<status, ret, finished>>

\* self.inner.execute(): the running stage waits at pc with frame f and its
\* inner plan starts
CallInner(f, pc) ==
    /\ stack' = Append([stack EXCEPT ![Len(stack)] = [f EXCEPT !.pc = pc]],
                       NewFrame(f.level - 1))
    /\ UNCHANGED <<status, ret, finished>>

\* the running stage, its frame being f, returns r to its caller
Return(f, r) ==
    /\ stack' = SubSeq(stack, 1, Len(stack) - 1)
    /\ ret' = r
    /\ status' = IF Len(stack) = 1 THEN "done" ELSE status
    /\ finished' = IF Len(stack) = 1 THEN f ELSE finished

\* the shard the running MultiRegion clone was applied to (0: none)
CurShard ==
    LET mr == {i \in DOMAIN stack : plan[stack[i].level].kind = "MultiRegion"}
    IN IF mr = {} THEN 0 ELSE stack[Min(mr)].shard

\* plan.execute() called by the owner of the plan
Execute ==
    /\ plan # <<>>
    /\ status = "idle"
    /\ status' = "running"
    /\ stack' = <<NewFrame(Len(plan))>>
    /\ ret' = NoRet
    /\ finished' = NewFrame(0)
    /\ runs' = runs + 1
    /\ dispatched' = [s \in Shards |-> 0]
    /\ calls' = NoCalls
    /\ hist' = NoHist
    /\ UNCHANGED bvars

\* plan.execute() called again on a plan whose execute() has returned
Reexecute ==
    /\ status = "done"
    /\ runs < MaxRuns
    /\ status' = "running"
    /\ stack' = <<NewFrame(Len(plan))>>
    /\ ret' = NoRet
    /\ finished' = NewFrame(0)
    /\ runs' = runs + 1
    /\ dispatched' = [s \in Shards |-> 0]
    /\ calls' = NoCalls
    /\ hist' = NoHist
    /\ UNCHANGED bvars

\* one shard is not dispatched to more often than this in one execute():
\* the retries the budgets of the plan pay for, and two more
DispatchCap == Budgets(plan) + 2

\* Dispatch::execute up to the .await of kv_client.dispatch(&request)
DispatchSend ==
    /\ Running("Dispatch", {"start"})
    /\ dispatched[CurShard] < DispatchCap
    /\ IF plan[1].kv_client \/ CurShard > 0
       THEN /\ Stay([Top EXCEPT !.pc = "inflight"])
            /\ dispatched' = [dispatched EXCEPT ![CurShard] = @ + 1]
       ELSE \* expect("Unreachable: kv_client has not been initialised")
            /\ status' = "panicked"
            /\ UNCHANGED <<stack, ret, finished, dispatched>>
    /\ UNCHANGED <<bvars, runs, calls, hist>>

DispatchOutcomes(s) ==
    {Err(Error("Transport", s))} \cup {Ok(r) : r \in Responses(s)}

\* the store client answers: Dispatch::execute returns
DispatchRecv ==
    /\ Running("Dispatch", {"inflight"})
    /\ \E out \in DispatchOutcomes(CurShard) :
          /\ Return(Top, out)
          /\ hist' = [hist EXCEPT
                !.allRegionErr = @ /\ out.ok /\ out.v.region_error
                                   /\ ~out.v.err /\ out.v.locks = {},
                !.allLocked = @ /\ out.ok /\ out.v.locks # {},
                !.onlyS2 = @ /\ out.ok /\ ~out.v.err
                             /\ (out.v.region_error <=> CurShard = 2),
                !.failed = IF ~out.ok \/ out.v.err
                           THEN @ \cup {CurShard} ELSE @ \ {CurShard}]
    /\ UNCHANGED <<bvars, runs, dispatched, calls>>

\* ------------------------------------------------------------- MultiRegion
\* self.inner.shards(&self.pd_client): the stream is created, nothing is
\* pulled from it yet
MultiRegionStart ==
    /\ Running("MultiRegion", {"start"})
    /\ Stay([Top EXCEPT !.pc = "poll"])
    /\ calls' = [calls EXCEPT !.shards = @ + 1, !.items = 0]
    /\ hist' = [hist EXCEPT !.failed = {}]
    /\ UNCHANGED <<bvars, runs, dispatched>>

\* a collect() that puts the newest outcome first
Collected_Reversed(acc, x) == <<x>> \o acc

\* collect(): the outcomes are kept in the order and_then yields them
Collected(acc, x) == Append(acc, x)

StreamError(x) == ~x.ok /\ x.e.kind \in {"ShardError", "ApplyError"}

\* the shard stream ends: collect() completes and execute returns Ok(vec)
MultiRegionEnd ==
    /\ Running("MultiRegion", {"poll"})
    /\ Return(Top, Ok(Vec(Top.acc)))
    /\ hist' = [hist EXCEPT
          !.noEmptyRun = @ /\ \E i \in DOMAIN Top.acc : Top.acc[i].ok,
          !.fullStreams = @ /\ Len(Top.acc) = MaxShards
                            /\ \A i \in DOMAIN Top.acc :
                                  ~StreamError(Top.acc[i])]
    /\ UNCHANGED <<bvars, runs, dispatched, calls>>

\* the shard stream yields Err: and_then passes it on as the item's outcome
MultiRegionStreamErr ==
    /\ Running("MultiRegion", {"poll"})
    /\ calls.items < MaxShards
    /\ Stay([Top EXCEPT
          !.acc = Collected(@, Err(Error("ShardError", calls.items + 1)))])
    /\ calls' = [calls EXCEPT !.items = @ + 1]
    /\ hist' = [hist EXCEPT !.failed = @ \cup {calls.items + 1}]
    /\ UNCHANGED <<bvars, runs, dispatched>>

\* the shard stream yields Ok((shard, store)): the closure clones the inner
\* plan, applies the shard and runs the clone up to its first .await
MultiRegionItem ==
    /\ Running("MultiRegion", {"poll"})
    /\ calls.items < MaxShards
    /\ \E applied \in BOOLEAN :
          LET s == calls.items + 1
          IN /\ IF applied
                THEN CallInner([Top EXCEPT !.shard = s], "await")
                ELSE Stay([Top EXCEPT
                        !.acc = Collected(@, Err(Error("ApplyError", s)))])
             /\ hist' = [hist EXCEPT
                   !.failed = IF applied THEN @ ELSE @ \cup {s}]
    /\ calls' = [calls EXCEPT !.items = @ + 1]
    /\ UNCHANGED <<bvars, runs, dispatched>>

\* a closure that also treats a region error as the shard's error
MultiRegionElement_RegionAsError(r) ==
    IF ~r.ok THEN r
    ELSE IF error(r.v) # NoRet THEN error(r.v)
    ELSE IF region_error(r.v) # NoRet THEN region_error(r.v)
    ELSE Ok(r.v)

\* the outcome of one shard from what clone.execute() returned
MultiRegionElement(r) ==
    IF ~r.ok THEN r
    ELSE IF error(r.v) # NoRet THEN error(r.v)
    ELSE Ok(r.v)

\* a MultiRegion that gives up at the first failed shard (try_collect)
MultiRegionAwait_Abort ==
    /\ Running("MultiRegion", {"await"})
    /\ IF MultiRegionElement(ret).ok
       THEN Stay([Top EXCEPT
                !.pc = "poll", !.shard = 0,
                !.acc = Collected(@, MultiRegionElement(ret))])
       ELSE Return(Top, MultiRegionElement(ret))
    /\ UNCHANGED <<bvars, runs, dispatched, calls, hist>>

\* clone.execute().await returns: the closure finishes for this item
MultiRegionAwait ==
    /\ Running("MultiRegion", {"await"})
    /\ Stay([Top EXCEPT
          !.pc = "poll", !.shard = 0,
          !.acc = Collected(@, MultiRegionElement(ret))])
    /\ UNCHANGED <<bvars, runs, dispatched, calls, hist>>

\* ------------------------------------------------------------- RetryRegion
RetryRegionStart ==
    /\ Running("RetryRegion", {"start"})
    /\ CallInner(Top, "await")
    /\ calls' = [calls EXCEPT !.regionDelays = 0, !.regionSleeps = 0]
    /\ UNCHANGED <<bvars, runs, dispatched, hist>>

\* a loop that clones self again on every iteration
RetryRegionBackoff_Fresh(stage, frame) == stage.backoff

\* the backoff the while loop draws from: clone = self.clone() is made once,
\* after the first inner execution
RetryRegionBackoff(stage, frame) ==
    IF frame.pc = "await" THEN stage.backoff ELSE frame.backoff

\* an execute(&mut self) that draws the delay from self.backoff as well
RetryRegionSelf_Drawn(p, level, b) == [p EXCEPT ![level].backoff = b]

\* the plan after a delay was drawn, b being the backoff drawn from:
\* execute(&self) draws from clone.backoff, the stage is not written
RetryRegionSelf(p, level, b) == p

\* a loop without the ? on self.inner.execute().await: a plan-level error
\* is retried like a region error
RetryRegionAwait_RetryOnError ==
    /\ Running("RetryRegion", {"await", "retry"})
    /\ LET b == RetryRegionBackoff(TopStage, Top)
           re == IF ret.ok THEN region_error(ret.v) ELSE ret
           nd == next_delay_duration(b)
       IN IF re = NoRet
          THEN Return(Top, Ok(ret.v)) /\ UNCHANGED <<plan, calls>>
          ELSE IF ~nd.some THEN Return(Top, re) /\ UNCHANGED <<plan, calls>>
          ELSE /\ Stay([Top EXCEPT !.pc = "sleep", !.backoff = nd.backoff])
               /\ plan' = RetryRegionSelf(plan, Top.level, nd.backoff)
               /\ calls' = [calls EXCEPT !.regionDelays = @ + 1,
                                         !.regionSleeps = @ + 1]
    /\ UNCHANGED <<builder, runs, dispatched, hist>>

\* a loop that leaves with break on exhaustion and falls through to
\* Ok(result)
RetryRegionAwait_OkOnExhaustion ==
    /\ Running("RetryRegion", {"await", "retry"})
    /\ LET b == RetryRegionBackoff(TopStage, Top)
           re == region_error(ret.v)
           nd == next_delay_duration(b)
       IN IF ~ret.ok THEN Return(Top, ret) /\ UNCHANGED <<plan, calls>>
          ELSE IF re = NoRet \/ ~nd.some
          THEN Return(Top, Ok(ret.v)) /\ UNCHANGED <<plan, calls>>
          ELSE /\ Stay([Top EXCEPT !.pc = "sleep", !.backoff = nd.backoff])
               /\ plan' = RetryRegionSelf(plan, Top.level, nd.backoff)
               /\ calls' = [calls EXCEPT !.regionDelays = @ + 1,
                                         !.regionSleeps = @ + 1]
    /\ UNCHANGED <<builder, runs, dispatched, hist>>

\* an inner execution returns: the loop runs up to the sleep or the return
RetryRegionAwait ==
    /\ Running("RetryRegion", {"await", "retry"})
    /\ LET b == RetryRegionBackoff(TopStage, Top)
           re == region_error(ret.v)
           nd == next_delay_duration(b)
       IN IF ~ret.ok THEN Return(Top, ret) /\ UNCHANGED <<plan, calls>>
          ELSE IF re = NoRet
          THEN Return(Top, Ok(ret.v)) /\ UNCHANGED <<plan, calls>>
          ELSE IF ~nd.some THEN Return(Top, re) /\ UNCHANGED <<plan, calls>>
          ELSE /\ Stay([Top EXCEPT !.pc = "sleep", !.backoff = nd.backoff])
               /\ plan' = RetryRegionSelf(plan, Top.level, nd.backoff)
               /\ calls' = [calls EXCEPT !.regionDelays = @ + 1,
                                         !.regionSleeps = @ + 1]
    /\ UNCHANGED <<builder, runs, dispatched, hist>>

\* Delay::new(delay_duration).await is over: clone.inner.execute()
RetryRegionWake ==
    /\ Running("RetryRegion", {"sleep"})
    /\ CallInner(Top, "retry")
    /\ UNCHANGED <<bvars, runs, dispatched, calls, hist>>

\* ------------------------------------------------------------- ResolveLock
ResolveLockStart ==
    /\ Running("ResolveLock", {"start"})
    /\ CallInner(Top, "await")
    /\ UNCHANGED <<bvars, runs, dispatched, calls, hist>>

\* a loop without the is_none check
FailFast_Never(stage) == FALSE

\* if self.backoff.is_none() { return Err(Error::ResolveLockError) }
FailFast(stage) == is_none(stage.backoff)

\* a loop that hands a response with a region error back untouched, its
\* locks still on it
ResolveLockAwait_RegionFirst ==
    /\ Running("ResolveLock", {"await"})
    /\ LET tl == take_locks(ret.v)
       IN IF ~ret.ok THEN Return(Top, ret)
          ELSE IF region_error(ret.v) # NoRet THEN Return(Top, ret)
          ELSE IF tl.locks = {} THEN Return(Top, Ok(tl.value))
          ELSE IF FailFast(TopStage)
               THEN Return(Top, Err(Error("ResolveLockError", CurShard)))
          ELSE Stay([Top EXCEPT !.pc = "resolving",
                                !.resolverCalls = @ + 1])
    /\ UNCHANGED <<bvars, runs, dispatched, calls, hist>>

\* an inner execution returns: the loop runs up to resolve_locks(..).await
ResolveLockAwait ==
    /\ Running("ResolveLock", {"await"})
    /\ LET tl == take_locks(ret.v)
       IN IF ~ret.ok THEN Return(Top, ret)
          ELSE IF tl.locks = {} THEN Return(Top, Ok(tl.value))
          ELSE IF FailFast(TopStage)
               THEN Return(Top, Err(Error("ResolveLockError", CurShard)))
          ELSE Stay([Top EXCEPT !.pc = "resolving",
                                !.resolverCalls = @ + 1])
    /\ UNCHANGED <<bvars, runs, dispatched, calls, hist>>

\* the backoff a 'false' answer draws from: let mut clone = self.clone()
\* is inside the loop, in the else branch
ResolveLockBackoff(stage, frame) == stage.backoff

\* a loop that draws a delay whatever the resolver answers
DrawsDelay_Always(answer) == TRUE

\* if resolve_locks(..).await? { re-execute } else { draw a delay }
DrawsDelay(answer) == answer = "false"

\* one attempt of the schedule b consumed, if it has one left
Consumed(b) == next_delay_duration(b).backoff

\* a Backoff that is shared by the retry stages of a plan instead of owned
\* by each: a delay drawn by one stage is drawn from all of them
ResolveLockSelf_Shared(p, level, b) ==
    [i \in DOMAIN p |-> [p[i] EXCEPT !.backoff = Consumed(@)]]

\* the plan after a delay was drawn, b being the backoff drawn from:
\* execute(&self) draws from clone.backoff, no stage is written
ResolveLockSelf(p, level, b) == p

\* resolve_locks(locks, pd_client).await returns
ResolveLockResolved ==
    /\ Running("ResolveLock", {"resolving"})
    /\ \E answer \in {"true", "false", "err"} :
          LET nd == next_delay_duration(ResolveLockBackoff(TopStage, Top))
              counted == [Top EXCEPT
                  !.resolverTrue = IF answer = "true" THEN @ + 1 ELSE @,
                  !.resolverFalse = IF answer = "false" THEN @ + 1 ELSE @]
          IN IF answer = "err"
             THEN /\ Return(Top, Err(Error("ResolverError", CurShard)))
                  /\ UNCHANGED plan
             ELSE IF ~DrawsDelay(answer)
             THEN CallInner(counted, "await") /\ UNCHANGED plan
             ELSE IF ~nd.some
             THEN /\ Return(counted,
                            Err(Error("ResolveLockError", CurShard)))
                  /\ UNCHANGED plan
             ELSE /\ Stay([counted EXCEPT
                            !.pc = "sleep", !.backoff = nd.backoff,
                            !.lockDelays = @ + 1, !.lockSleeps = @ + 1])
                  /\ plan' = ResolveLockSelf(plan, Top.level, nd.backoff)
    /\ UNCHANGED <<builder, runs, dispatched, calls, hist>>

\* Delay::new(delay_duration).await is over: clone.inner.execute()
ResolveLockWake ==
    /\ Running("ResolveLock", {"sleep"})
    /\ CallInner(Top, "await")
    /\ UNCHANGED <<bvars, runs, dispatched, calls, hist>>

\* ----------------------------------------------------------- MergeResponse
MergeStart ==
    /\ Running("MergeResponse", {"start"})
    /\ CallInner(Top, "await")
    /\ UNCHANGED <<bvars, runs, dispatched, calls, hist>>

Max(S) == CHOOSE x \in S : \A y \in S : x >= y

\* a merge that keeps the error it met last
CollectError_merge_LastErr(input) ==
    LET bad == {i \in DOMAIN input : ~input[i].ok}
    IN IF bad = {} THEN Ok(Vec([i \in DOMAIN input |-> input[i].v]))
       ELSE input[Max(bad)]

\* CollectError::merge: input.into_iter().collect() into Result<Vec<T>>:
\* the first Err met, or Ok of the values in the order of the input
CollectError_merge(input) ==
    LET bad == {i \in DOMAIN input : ~input[i].ok}
    IN IF bad = {} THEN Ok(Vec([i \in DOMAIN input |-> input[i].v]))
       ELSE input[Min(bad)]

\* self.inner.execute().await? ; self.merge.merge(result)
MergeAwait ==
    /\ Running("MergeResponse", {"await"})
    /\ Return(Top, IF ~ret.ok THEN ret ELSE CollectError_merge(ret.v.items))
    /\ UNCHANGED <<bvars, runs, dispatched, calls, hist>>

ExecNext ==
    \/ Execute
    \/ DispatchSend
    \/ DispatchRecv
    \/ MultiRegionStart
    \/ MultiRegionEnd
    \/ MultiRegionStreamErr
    \/ MultiRegionItem
    \/ MultiRegionAwait
    \/ RetryRegionStart
    \/ RetryRegionAwait
    \/ RetryRegionWake
    \/ ResolveLockStart
    \/ ResolveLockAwait
    \/ ResolveLockResolved
    \/ ResolveLockWake
    \/ MergeStart
    \/ MergeAwait

\* ---------------------------------------------------------- specifications
Req == [single_key |-> TRUE, shardable |-> TRUE, process |-> TRUE]

Single == set_single_region_store(PlanBuilder_new(Req), "single_region")

\* the builders whose plans are executed: the stacks the callers of the
\* library assemble
ExecBuilders ==
    {resolve_lock(Single, m) : m \in Backoffs}
    \cup {retry_region(Single, n) : n \in Backoffs}
    \cup {retry_region(resolve_lock(Single, m), n) :
             m \in Backoffs, n \in Backoffs}
    \cup {multi_region(PlanBuilder_new(Req))}
    \cup {merge(multi_region(PlanBuilder_new(Req)), "CollectError")}
    \cup {retry_region(multi_region(PlanBuilder_new(Req)), n) :
             n \in Backoffs}
    \cup {retry_region(multi_region(resolve_lock(PlanBuilder_new(Req), m)), n)
             : m \in {no_backoff, no_jitter_backoff(1)},
               n \in {no_jitter_backoff(1)}}

Idle ==
    /\ status = "idle"
    /\ stack = <<>>
    /\ ret = NoRet
    /\ finished = NewFrame(0)
    /\ runs = 0
    /\ dispatched = [s \in Shards |-> 0]
    /\ calls = NoCalls
    /\ hist = NoHist

\* a plan has been built and handed to its owner
Init ==
    /\ \E b \in ExecBuilders :
          /\ builder = [b EXCEPT !.st = "planned"]
          /\ plan = b.plan
    /\ Idle

Next == ExecNext

Spec == Init /\ [][Next]_vars

\* the caller starts from PlanBuilder::new
BuilderInit ==
    /\ builder = NoBuilder
    /\ plan = <<>>
    /\ Idle

BuilderSpec == BuilderInit /\ [][BuilderNext]_vars

\* the plans that are executed more than once: RetryRegion over a
\* single-region dispatch and over a multi-region dispatch
RerunBuilders ==
    {retry_region(Single, n) : n \in Backoffs}
    \cup {retry_region(multi_region(PlanBuilder_new(Req)), n) :
             n \in Backoffs}

RerunInit ==
    /\ \E b \in RerunBuilders :
          /\ builder = [b EXCEPT !.st = "planned"]
          /\ plan = b.plan
    /\ Idle

RerunNext ==
    \/ Execute
    \/ Reexecute
    \/ DispatchSend
    \/ DispatchRecv
    \/ MultiRegionStart
    \/ MultiRegionEnd
    \/ MultiRegionStreamErr
    \/ MultiRegionItem
    \/ MultiRegionAwait
    \/ RetryRegionStart
    \/ RetryRegionAwait
    \/ RetryRegionWake

RerunSpec == RerunInit /\ [][RerunNext]_vars

\* the plans that end in merge(CollectError): over a multi-region dispatch
\* and over a region retry of one
MergeBuilders ==
    {merge(multi_region(PlanBuilder_new(Req)), "CollectError")}
    \cup {merge(retry_region(multi_region(PlanBuilder_new(Req)), n),
                "CollectError") : n \in {no_backoff, no_jitter_backoff(1)}}

MergeInit ==
    /\ \E b \in MergeBuilders :
          /\ builder = [b EXCEPT !.st = "planned"]
          /\ plan = b.plan
    /\ Idle

MergeNext ==
    \/ Execute
    \/ DispatchSend
    \/ DispatchRecv
    \/ MultiRegionStart
    \/ MultiRegionEnd
    \/ MultiRegionStreamErr
    \/ MultiRegionItem
    \/ MultiRegionAwait
    \/ RetryRegionStart
    \/ RetryRegionAwait
    \/ RetryRegionWake
    \/ MergeStart
    \/ MergeAwait

MergeSpec == MergeInit /\ [][MergeNext]_vars

\* ------------------------------------------------------------------ claims
PlanKinds == [i \in DOMAIN plan |-> plan[i].kind]
TopBackoff == plan[Len(plan)].backoff

\* retry_region(multi_region(..dispatch))
RetryOverMulti ==
    /\ Len(plan) >= 3
    /\ plan[Len(plan)].kind = "RetryRegion"
    /\ plan[Len(plan) - 1].kind = "MultiRegion"

\* resolve_lock(dispatch)
LockOverDispatch == PlanKinds = <<"Dispatch", "ResolveLock">>

\* ret is what a stage of this kind has just returned to its caller
AfterReturnOf(kind) ==
    \/ /\ status = "running"
       /\ stack # <<>>
       /\ Top.level > 1
       /\ plan[Top.level - 1].kind = kind
       /\ Top.pc \in {"await", "retry"}
    \/ /\ status = "done"
       /\ plan[Len(plan)].kind = kind

FailedWith(x, kind) == ~x.ok /\ x.e.kind = kind

\* C1: in retry_region(multi_region(..dispatch)) with a region backoff of N
\* attempts, as long as every response carries a region error (and nothing
\* else), the multi-region plan is never run more than N+1 times, and the
\* execute() ends after exactly N+1 runs with Err(region error).
C1_RegionRetryBound ==
    (RetryOverMulti /\ hist.allRegionErr /\ hist.noEmptyRun)
    => /\ calls.shards <= Budget(TopBackoff) + 1
       /\ status = "done"
          => /\ calls.shards = Budget(TopBackoff) + 1
             /\ FailedWith(ret, "RegionError")

C1_Witness ==
    /\ status = "done"
    /\ RetryOverMulti /\ hist.allRegionErr /\ hist.noEmptyRun
    /\ Budget(TopBackoff) = MaxAttempts
    /\ calls.shards = MaxAttempts + 1
    /\ FailedWith(ret, "RegionError")

\* C2: in resolve_lock(dispatch) with a lock backoff of M attempts, as long
\* as every response carries locks and the resolver answers false, the inner
\* plan is never invoked more than M+1 times, and the execute() ends after
\* exactly M+1 invocations with ResolveLockError.
C2_LockRetryBound ==
    (/\ LockOverDispatch
     /\ hist.allLocked
     /\ \A k \in DOMAIN stack : stack[k].resolverTrue = 0
     /\ finished.resolverTrue = 0
     /\ ~FailedWith(ret, "ResolverError"))
    => /\ dispatched[0] <= Budget(TopBackoff) + 1
       /\ status = "done"
          => /\ dispatched[0] = Budget(TopBackoff) + 1
             /\ FailedWith(ret, "ResolveLockError")

\* C3: in resolve_lock(dispatch) with the no-backoff lock schedule the
\* resolver is never invoked, nothing sleeps and there is no second
\* dispatch; a first response with a lock ends the execute() with
\* ResolveLockError.
C3_NoBackoffFailFast ==
    (LockOverDispatch /\ is_none(TopBackoff) /\ hist.allLocked)
    => /\ \A k \in DOMAIN stack :
             stack[k].resolverCalls = 0 /\ stack[k].lockSleeps = 0
       /\ finished.resolverCalls = 0
       /\ finished.lockSleeps = 0
       /\ dispatched[0] <= 1
       /\ status = "done"
          => /\ dispatched[0] = 1
             /\ FailedWith(ret, "ResolveLockError")

C3_Witness ==
    /\ status = "done"
    /\ LockOverDispatch /\ is_none(TopBackoff) /\ hist.allLocked
    /\ dispatched[0] = 1
    /\ FailedWith(ret, "ResolveLockError")

\* a resolver answer of true is being handled by this step
AnswersTrue ==
    /\ Running("ResolveLock", {"resolving"})
    /\ Len(stack') >= Len(stack)
    /\ stack'[Len(stack)].resolverTrue = Top.resolverTrue + 1

\* C4: when the resolver answers true, the inner plan is re-executed in the
\* same step: no sleep, no delay drawn, the backoff of the stage's frame
\* untouched. In resolve_lock(dispatch), an execute() that saw locks once,
\* got true, and then a response without locks returns that response after
\* 2 dispatches with no delay consumed.
C4_ResolvedKeepsBudget ==
    /\ [][AnswersTrue =>
            /\ stack'[Len(stack)].lockDelays = Top.lockDelays
            /\ stack'[Len(stack)].lockSleeps = Top.lockSleeps
            /\ Len(stack') = Len(stack) + 1
            /\ stack'[Len(stack')].pc = "start"
            /\ stack'[Len(stack')].level = Top.level - 1
            /\ stack'[Len(stack)].backoff = Top.backoff]_vars
    /\ []((/\ status = "done"
           /\ LockOverDispatch
           /\ ret.ok
           /\ finished.resolverCalls = 1
           /\ finished.resolverTrue = 1)
          => /\ dispatched[0] = 2
             /\ finished.lockDelays = 0
             /\ finished.lockSleeps = 0
             /\ ret.v.tag = "resp"
             /\ ret.v.locks = {})

C4_Witness ==
    /\ status = "done"
    /\ LockOverDispatch
    /\ ~is_none(TopBackoff) /\ TopBackoff.max_attempts > 0
    /\ ret.ok
    /\ finished.resolverCalls = 1 /\ finished.resolverTrue = 1
    /\ dispatched[0] = 2
    /\ finished.lockDelays = 0

\* the item of the shard stream an outcome belongs to
Stamp(x) == IF x.ok THEN x.v.shard ELSE x.e.shard

InOrder(items) == \A i \in DOMAIN items : Stamp(items[i]) = i

\* C5: the outcomes MultiRegion has collected, and the vector it returns,
\* hold at position i the outcome of the i-th item of the shard stream.
C5_ShardOrder ==
    /\ \A k \in DOMAIN stack :
          plan[stack[k].level].kind = "MultiRegion" => InOrder(stack[k].acc)
    /\ AfterReturnOf("MultiRegion")
          => ret.ok /\ ret.v.tag = "vec" /\ InOrder(ret.v.items)

C5_Witness ==
    /\ status = "done"
    /\ PlanKinds = <<"Dispatch", "MultiRegion">>
    /\ ret.ok
    /\ Len(ret.v.items) = MaxShards
    /\ ret.v.items[1].ok
    /\ ~ret.v.items[MaxShards].ok

\* C6: while the dispatch of one shard is in flight and the shard stream
\* can still yield an item, MultiRegion can take that item and start its
\* dispatch.
C6_Concurrent ==
    (/\ Running("Dispatch", {"inflight"})
     /\ CurShard > 0
     /\ calls.items < MaxShards)
    => ENABLED MultiRegionItem

\* retry_region(multi_region(dispatch))
RetryMultiDispatch == PlanKinds = <<"Dispatch", "MultiRegion", "RetryRegion">>

\* C7: in retry_region(multi_region(dispatch)) with region backoff N, when
\* every stream yields all the shards and only shard 2 region-errors (on
\* every attempt), no shard is dispatched more than N+1 times, and the
\* execute() ends after N+1 runs of the multi-region plan, every shard
\* dispatched exactly N+1 times, with the region error of shard 2.
C7_WholePlanRetried ==
    (RetryMultiDispatch /\ hist.onlyS2 /\ hist.fullStreams)
    => /\ \A s \in 1..MaxShards : dispatched[s] <= Budget(TopBackoff) + 1
       /\ status = "done"
          => /\ \A s \in 1..MaxShards :
                   dispatched[s] = Budget(TopBackoff) + 1
             /\ calls.shards = Budget(TopBackoff) + 1
             /\ ret = Err(Error("RegionError", 2))

C7_Witness ==
    /\ status = "done"
    /\ RetryMultiDispatch /\ hist.onlyS2 /\ hist.fullStreams
    /\ Budget(TopBackoff) = MaxAttempts
    /\ \A s \in 1..MaxShards : dispatched[s] = MaxAttempts + 1
    /\ ret = Err(Error("RegionError", 2))

\* C8: MultiRegion always returns Ok(vector) with one element per item the
\* shard stream yielded, an Err element at the position of every item
\* that failed; after a failure it goes on taking items from the stream.
C8_FailuresAreElements ==
    /\ AfterReturnOf("MultiRegion")
          => /\ ret.ok
             /\ ret.v.tag = "vec"
             /\ Len(ret.v.items) = calls.items
             /\ \A i \in hist.failed :
                   /\ i \in DOMAIN ret.v.items
                   /\ ~ret.v.items[i].ok
                   /\ ret.v.items[i].e.shard = i
    /\ (/\ Running("MultiRegion", {"poll"})
        /\ hist.failed # {}
        /\ calls.items < MaxShards)
          => ENABLED MultiRegionItem

C8_Witness ==
    /\ AfterReturnOf("MultiRegion")
    /\ ret.ok
    /\ Len(ret.v.items) = MaxShards
    /\ 1 \in hist.failed
    /\ ~ret.v.items[1].ok
    /\ ret.v.items[MaxShards].ok
    /\ dispatched[MaxShards] > 0

LastOp(b) == b.ops[Len(b.ops)]

\* C9: the phase starts as NoTarget; a step changes it only from NoTarget to
\* Targetted and only by multi_region, single_region or
\* single_region_with_store, each of which is taken only in NoTarget;
\* plan() is taken only in Targetted; so a returned plan has gone through
\* exactly one targeting operation.
C9_Phases ==
    /\ [](builder.st = "live" /\ builder.ops = <<>>
            => builder.phase = "NoTarget")
    /\ [][/\ builder'.phase # builder.phase
             => /\ builder.phase = "NoTarget"
                /\ builder'.phase = "Targetted"
                /\ Len(builder'.ops) = Len(builder.ops) + 1
                /\ LastOp(builder') \in TargetOps
          /\ (/\ Len(builder'.ops) = Len(builder.ops) + 1
              /\ LastOp(builder') \in TargetOps)
             => builder.phase = "NoTarget"
          /\ plan' # plan => builder.phase = "Targetted"]_vars
    /\ [](plan # <<>>
            => /\ builder.phase = "Targetted"
               /\ Len(Targetings(builder)) = 1
               /\ ~("MultiRegion" \in Kinds(plan) /\ plan[1].kv_client))

C9_Witness ==
    /\ plan # <<>>
    /\ builder.st = "planned"
    /\ Len(builder.ops) = MaxOps
    /\ Len(Targetings(builder)) = 1

\* C10: no plan returned by plan() has a ResolveLock, RetryRegion or
\* ProcessResponse stage on top of a MergeResponse stage.
C10_MergeTerminal ==
    plan # <<>>
    => \A i, j \in DOMAIN plan :
          (i < j /\ plan[i].kind = "MergeResponse")
          => plan[j].kind \notin
                {"ResolveLock", "RetryRegion", "ProcessResponse"}

\* C11: no plan returned by plan() has a ResolveLock stage outside
\* (applied after) a RetryRegion stage.
C11_LockInsideRetry ==
    plan # <<>>
    => \A i, j \in DOMAIN plan :
          (i < j /\ plan[i].kind = "RetryRegion")
          => plan[j].kind # "ResolveLock"

\* every leaf Dispatch of the stack p has its store-client slot populated
Populated(p) == \A i \in DOMAIN p : p[i].kind = "Dispatch" => p[i].kv_client

\* C12 as stated: every plan a Targetted builder holds, and every plan
\* returned by plan(), has the store-client slot of its leaf Dispatch
\* populated.
C12_LeafPopulated ==
    /\ (builder.st # "none" /\ builder.phase = "Targetted")
          => Populated(builder.plan)
    /\ plan # <<>> => Populated(plan)

\* C12 amended: the plan a Targetted builder holds, and the plan plan()
\* returns, has its leaf Dispatch populated exactly when the targeting was
\* single_region or single_region_with_store; multi_region leaves the slot
\* of the held plan empty.
C12_LeafPopulatedBySingleRegion ==
    /\ (builder.st # "none" /\ builder.phase = "Targetted")
          => /\ Len(Targetings(builder)) = 1
             /\ Populated(builder.plan)
                   <=> Targetings(builder)[1] # "multi_region"
    /\ plan # <<>>
          => /\ plan = builder.plan
             /\ Populated(plan) <=> "MultiRegion" \notin Kinds(plan)

C12_Witness ==
    /\ builder.st = "planned"
    /\ Targetings(builder) = <<"single_region">>
    /\ Len(plan) = MaxOps
    /\ Populated(plan)

\* retry_region(..) outermost
RetryOutermost == plan[Len(plan)].kind = "RetryRegion"

\* the inner executions RetryRegion has started in this execute()
InnerRuns == IF RetryOverMulti THEN calls.shards ELSE dispatched[0]

\* C13: no step of an execute() changes the backoff stored in the
\* RetryRegion stage; every execute() of the plan, the first and any later
\* one, that sees only region errors performs exactly N+1 inner executions
\* and returns the region error.
C13_FreshBudgetPerExecute ==
    /\ [][plan' = plan]_vars
    /\ []((/\ status = "done"
           /\ RetryOutermost
           /\ hist.allRegionErr /\ hist.noEmptyRun)
          => /\ InnerRuns = Budget(TopBackoff) + 1
             /\ calls.regionDelays = Budget(TopBackoff)
             /\ FailedWith(ret, "RegionError"))

C13_Witness ==
    /\ status = "done"
    /\ runs = MaxRuns
    /\ RetryOverMulti
    /\ hist.allRegionErr /\ hist.noEmptyRun
    /\ Budget(TopBackoff) = MaxAttempts
    /\ calls.shards = MaxAttempts + 1
    /\ FailedWith(ret, "RegionError")

\* this step draws a delay from a lock backoff
DrawsLockDelay ==
    /\ Running("ResolveLock", {"resolving"})
    /\ Len(stack') = Len(stack)
    /\ stack'[Len(stack)].lockDelays = Top.lockDelays + 1

\* this step draws a delay from a region backoff
DrawsRegionDelay ==
    /\ Running("RetryRegion", {"await", "retry"})
    /\ calls'.regionDelays = calls.regionDelays + 1

\* the frames of the callers of the running stage
Callers(st) == SubSeq(st, 1, Len(st) - 1)

\* the delays a starting ResolveLock::execute of stage i can still draw
LockBudgetAtEntry(i) ==
    Budget(plan[i].backoff) - plan[i].backoff.current_attempts

\* C14: a step that draws a lock delay or a region delay changes the
\* backoff of no stage of the plan and no frame but that of the stage
\* drawing it, so neither the other stage nor the clone of another shard
\* has less budget after it; every ResolveLock::execute, for whichever
\* shard and after whichever region retry, starts with the full lock
\* budget; and a RetryRegion over ResolveLock that gives up has drawn its
\* full region budget whatever lock delays were drawn.
C14_IndependentBudgets ==
    /\ [][(DrawsLockDelay \/ DrawsRegionDelay)
            => /\ plan' = plan
               /\ Callers(stack') = Callers(stack)]_vars
    /\ [](\A i \in DOMAIN plan :
             plan[i].kind = "ResolveLock"
             => LockBudgetAtEntry(i) = Budget(plan[i].backoff))
    /\ []((/\ status = "done"
           /\ PlanKinds = <<"Dispatch", "ResolveLock", "RetryRegion">>
           /\ FailedWith(ret, "RegionError"))
          => calls.regionDelays = Budget(TopBackoff))

\* a lock delay and a region delay have both been drawn, the region budget
\* is used up and ResolveLock is running again
C14_Witness ==
    /\ PlanKinds = <<"Dispatch", "ResolveLock", "RetryRegion">>
    /\ Running("ResolveLock", {"sleep"})
    /\ Top.lockDelays >= 1
    /\ calls.regionDelays = Budget(TopBackoff)
    /\ Budget(TopBackoff) = MaxAttempts

\* the running stage returns in this step, and returns r
ReturnsNow(r) ==
    /\ Len(stack') = Len(stack) - 1
    /\ ret' = r
    /\ calls' = calls
    /\ dispatched' = dispatched
    /\ plan' = plan

\* C15: when the inner plan has returned a plan-level error to RetryRegion
\* or to ResolveLock, on the first attempt or on a retry, the stage's next
\* step returns that same error; a resolver error is returned in the step
\* that receives it; no dispatch, sleep or delay follows. So an execute()
\* that fails with a transport error or a resolver error has dispatched
\* once per delay or resolver call that preceded the failure and no more.
C15_ErrorsPropagate ==
    /\ [][/\ (/\ Running("RetryRegion", {"await", "retry"})
              /\ ~ret.ok)
             => ReturnsNow(ret)
          /\ (/\ Running("ResolveLock", {"await"})
              /\ ~ret.ok)
             => ReturnsNow(ret)
          /\ (/\ Running("ResolveLock", {"resolving"})
              /\ ~ret'.ok
              /\ ret'.e.kind = "ResolverError")
             => /\ ReturnsNow(ret')
                /\ Top.lockDelays + Top.lockSleeps
                      <= 2 * Top.resolverFalse]_vars
    /\ []((/\ status = "done"
           /\ PlanKinds = <<"Dispatch", "RetryRegion">>
           /\ FailedWith(ret, "Transport"))
          => /\ dispatched[0] = calls.regionDelays + 1
             /\ calls.regionSleeps = calls.regionDelays)
    /\ []((/\ status = "done"
           /\ LockOverDispatch
           /\ FailedWith(ret, "Transport"))
          => dispatched[0] = finished.resolverCalls + 1)
    /\ []((/\ status = "done"
           /\ LockOverDispatch
           /\ FailedWith(ret, "ResolverError"))
          => /\ dispatched[0] = finished.resolverCalls
             /\ finished.resolverCalls =
                   finished.resolverTrue + finished.resolverFalse + 1
             /\ finished.lockSleeps = finished.resolverFalse)

\* a transport error on a retry ends the execute() with its budget unused
C15_Witness ==
    /\ status = "done"
    /\ PlanKinds = <<"Dispatch", "RetryRegion">>
    /\ FailedWith(ret, "Transport")
    /\ Budget(TopBackoff) = MaxAttempts
    /\ calls.regionDelays = 1
    /\ dispatched[0] = 2

\* C16: while the inner plan is re-executed after a region error, the
\* PdClient's invalidate_region has been called at least once for every
\* region retry made so far.
C16_InvalidateBeforeRetry ==
    \A k \in DOMAIN stack :
       (plan[stack[k].level].kind = "RetryRegion" /\ stack[k].pc = "retry")
       => /\ calls.invalidations >= 1
          /\ calls.invalidations >= calls.regionDelays

\* C17: lock retries are bounded by the lock backoff, which is what makes
\* every ResolveLock::execute return: one execute() never draws more
\* delays (and so never makes more delayed retries) than its lock backoff
\* has attempts.
C17_LockRetriesBounded ==
    \A k \in DOMAIN stack :
       plan[stack[k].level].kind = "ResolveLock"
       => /\ stack[k].lockDelays <= Budget(plan[stack[k].level].backoff)
          /\ stack[k].lockSleeps <= Budget(plan[stack[k].level].backoff)

\* merge(CollectError) outermost
MergeOutermost == plan[Len(plan)].kind = "MergeResponse"

\* C18: MergeResponse returns a plan-level error of its inner plan as it
\* is; otherwise, with the last shard stream having had no failed item,
\* it returns Ok of the vector of the responses, the response of the i-th
\* item at position i; and with failed items it returns the error of the
\* first of them in stream order.
C18_CollectError ==
    /\ [][(Running("MergeResponse", {"await"}) /\ ~ret.ok)
            => ReturnsNow(ret)]_vars
    /\ []((status = "done" /\ MergeOutermost
              /\ ~FailedWith(ret, "RegionError"))
          => IF hist.failed = {}
             THEN /\ ret.ok
                  /\ ret.v.tag = "vec"
                  /\ Len(ret.v.items) = calls.items
                  /\ \A i \in DOMAIN ret.v.items :
                        /\ ret.v.items[i].tag = "resp"
                        /\ ret.v.items[i].shard = i
             ELSE /\ ~ret.ok
                  /\ ret.e.shard = Min(hist.failed))

C18_Witness ==
    /\ status = "done"
    /\ MergeOutermost
    /\ hist.failed = 1..MaxShards
    /\ ret = Err(Error("Transport", 1))

\* C19: what RetryRegion::execute returns as Ok carries no region error
\* (for a vector: no Ok element of it does), and what ResolveLock::execute
\* returns as Ok carries no locks.
C19_OkIsClean ==
    /\ (AfterReturnOf("RetryRegion") /\ ret.ok)
          => /\ region_error(ret.v) = NoRet
             /\ ret.v.tag = "resp" => ~ret.v.region_error
             /\ ret.v.tag = "vec"
                   => \A i \in DOMAIN ret.v.items :
                         ret.v.items[i].ok => ~ret.v.items[i].v.region_error
    /\ (AfterReturnOf("ResolveLock") /\ ret.ok)
          => /\ ret.v.tag = "resp"
             /\ ret.v.locks = {}

\* a region error and then a clean response: Ok after one region retry
C19_Witness ==
    /\ status = "done"
    /\ PlanKinds = <<"Dispatch", "ResolveLock", "RetryRegion">>
    /\ ret.ok
    /\ calls.regionDelays >= 1
    /\ ~ret.v.region_error
    /\ ret.v.locks = {}

\* retry_region(..resolve_lock(..))
LockInsideRetry ==
    \E i, j \in DOMAIN plan :
       i < j /\ plan[i].kind = "ResolveLock" /\ plan[j].kind = "RetryRegion"

\* the response the inner plan has just returned to the running stage
\* carries a region error and locks
BothReturned ==
    /\ ret.ok
    /\ ret.v.tag = "resp"
    /\ ret.v.region_error
    /\ ret.v.locks # {}

\* C20 as stated: in retry_region(..resolve_lock(dispatch)), the step
\* ResolveLock takes on a response with a region error and locks invokes
\* the resolver; and what RetryRegion inspects carries no locks.
C20_ResolverInvokedFirst ==
    /\ [][(/\ LockInsideRetry
           /\ Running("ResolveLock", {"await"})
           /\ BothReturned)
          => /\ Len(stack') = Len(stack)
             /\ stack'[Len(stack)].pc = "resolving"
             /\ stack'[Len(stack)].resolverCalls
                   = Top.resolverCalls + 1]_vars
    /\ []((/\ LockInsideRetry
           /\ Running("RetryRegion", {"await", "retry"})
           /\ ret.ok)
          => ret.v.locks = {})

\* C20 amended: in retry_region(..resolve_lock(dispatch)), a response with
\* a region error and locks goes to ResolveLock, whose next step invokes
\* the resolver, or, with the no-backoff lock schedule, fails with
\* ResolveLockError; it leaves the region budget alone; what
\* RetryRegion inspects carries no locks; and every ResolveLock::execute,
\* also one entered by a region retry, starts with nothing drawn from the
\* full lock backoff.
C20_LocksBeforeRegion ==
    /\ [][(/\ LockInsideRetry
           /\ Running("ResolveLock", {"await"})
           /\ BothReturned)
          => /\ calls' = calls
             /\ IF is_none(TopStage.backoff)
                THEN /\ Len(stack') = Len(stack) - 1
                     /\ FailedWith(ret', "ResolveLockError")
                ELSE /\ Len(stack') = Len(stack)
                     /\ stack'[Len(stack)].pc = "resolving"
                     /\ stack'[Len(stack)].resolverCalls
                           = Top.resolverCalls + 1]_vars
    /\ []((/\ LockInsideRetry
           /\ Running("RetryRegion", {"await", "retry"})
           /\ ret.ok)
          => /\ ret.v.locks = {}
             /\ \A i \in DOMAIN ret.v.items :
                   ret.v.items[i].ok => ret.v.items[i].v.locks = {})
    /\ [](\A k \in DOMAIN stack :
             (/\ plan[stack[k].level].kind = "ResolveLock"
              /\ stack[k].pc \in {"start", "await"}
              /\ stack[k].resolverCalls = 0)
             => /\ stack[k].lockDelays = 0
                /\ ResolveLockBackoff(plan[stack[k].level], stack[k])
                      = plan[stack[k].level].backoff
                /\ plan[stack[k].level].backoff.current_attempts = 0)

\* after a region retry, ResolveLock has received a response with a region
\* error and locks and has invoked the resolver
C20_Witness ==
    /\ PlanKinds = <<"Dispatch", "ResolveLock", "RetryRegion">>
    /\ Running("ResolveLock", {"resolving"})
    /\ BothReturned
    /\ calls.regionDelays >= 1
    /\ Top.resolverCalls = 1

====
